---- MODULE Spec2Model ----
(***************************************************************************)
(* contract-compass: the contract store, the create action, and the        *)
(* Financial Analysis load (routes/analysis/+page.server.ts), which turns  *)
(* a snapshot of the store and the clock into the KPI object the analysis  *)
(* page displays.                                                          *)
(*                                                                         *)
(* Dates.  A stored date 'YYYY-MM-DD' is the number                        *)
(*     (year * 12 + month - 1) * 31 + (day - 1),                           *)
(* which orders dates as the calendar does and gives the calendar month    *)
(* by a division.  NoDate (0) is an absent date.  An instant is            *)
(* 2 * date + tod, where tod = 0 is local midnight exactly and tod = 1 is  *)
(* any later time of that day: the code compares stored dates, which it    *)
(* parses at local midnight, with the clock, which carries a time of day.  *)
(*                                                                         *)
(* Money.  contract_value is a natural number; 0 stands for both 0 and     *)
(* null, which the code never tells apart (every use is a truthiness test  *)
(* or `|| 0`).  Values of yearly contracts are multiples of 12, so that    *)
(* contract_value / 12 is exact.                                           *)
(***************************************************************************)
EXTENDS Integers, Sequences, FiniteSets, TLC

VARIABLES contracts, now, tz, dateFns, params, loaded, loadNow, data, dashboard, files, response, chart

vars == <<contracts, now, tz, dateFns, params, loaded, loadNow, data, dashboard, files, response, chart>>

----------------------------------------------------------------------------
(* Bounds of the model *)

MaxContracts == 2
MaxTop == 6
MaxStore == 3

\* files the bucket holds at most
MaxFiles == 2

\* Chart.js instances one component creates at most
MaxCharts == 4

----------------------------------------------------------------------------
(* Calendar: the date-fns functions the load imports *)

NoDate == 0

MkDate(y, m, d) == (y * 12 + (m - 1)) * 31 + (d - 1)

MonthIndex(date) == date \div 31

DayOfMonth(date) == (date % 31) + 1

DateOf(t) == t \div 2

TimeOfDay(t) == t % 2

\* new Date(s + 'T00:00:00'): local midnight of a stored date
Midnight(date) == date * 2

IsLeap(y) == (y % 4 = 0 /\ y % 100 # 0) \/ y % 400 = 0

DaysInMonth(mi) ==
    LET m == (mi % 12) + 1
        y == mi \div 12
    IN  IF m = 2 THEN (IF IsLeap(y) THEN 29 ELSE 28)
        ELSE IF m \in {4, 6, 9, 11} THEN 30 ELSE 31

Min(a, b) == IF a < b THEN a ELSE b

Max(a, b) == IF a > b THEN a ELSE b

\* date-fns subMonths: the same day of the month n months earlier, clamped
\* to the last day of that month, the time of day kept
subMonths(t, n) ==
    LET mi == MonthIndex(DateOf(t)) - n
        d  == Min(DayOfMonth(DateOf(t)), DaysInMonth(mi))
    IN  (mi * 31 + (d - 1)) * 2 + TimeOfDay(t)

differenceInCalendarMonths(a, b) ==
    MonthIndex(DateOf(a)) - MonthIndex(DateOf(b))

getYear(t) == MonthIndex(DateOf(t)) \div 12

\* date-fns isPast(d): d < Date.now()
isPast(t, clock) == t < clock

\* the days of the months of year y before month m
RECURSIVE DaysBeforeMonth(_, _)
DaysBeforeMonth(y, m) ==
    IF m = 1 THEN 0
    ELSE DaysBeforeMonth(y, m - 1) + DaysInMonth(y * 12 + (m - 2))

\* the number of a stored date's day, counted in days of the calendar
DayNumber(date) ==
    LET y == MonthIndex(date) \div 12
        m == (MonthIndex(date) % 12) + 1
    IN  365 * y + ((y - 1) \div 4) - ((y - 1) \div 100) + ((y - 1) \div 400)
        + DaysBeforeMonth(y, m) + DayOfMonth(date)

\* date-fns differenceInDays(a, b): full days from b to a, towards zero
differenceInDays(a, b) ==
    LET days == DayNumber(DateOf(a)) - DayNumber(DateOf(b))
    IN  IF days > 0 /\ TimeOfDay(a) < TimeOfDay(b) THEN days - 1
        ELSE IF days < 0 /\ TimeOfDay(a) > TimeOfDay(b) THEN days + 1
        ELSE days

\* date-fns isWithinInterval: closed at both ends.  Given an interval whose
\* start is after its end, date-fns 3 and 4 take the two ends in order;
\* date-fns 2 throws a RangeError, which the callers model (LoadThrows,
\* RangeThrows)
isWithinInterval(t, iv) ==
    t >= Min(iv.start, iv.end) /\ t <= Max(iv.start, iv.end)

\* new Date('2999-12-31')
FarFuture == Midnight(MkDate(2999, 12, 31))

----------------------------------------------------------------------------
(* Folds over sequences *)

RECURSIVE SumSeq(_)
SumSeq(s) == IF s = <<>> THEN 0 ELSE Head(s) + SumSeq(Tail(s))

\* Array.prototype.map over a sequence of records, one field
Field(s, f) == [i \in 1..Len(s) |-> s[i][f]]

\* a sort that is not stable: an element goes before its equals
RECURSIVE InsertDescUnstable(_, _)
InsertDescUnstable(sorted, p) ==
    IF sorted = <<>> THEN <<p>>
    ELSE IF Head(sorted).k > p.k
         THEN <<Head(sorted)>> \o InsertDescUnstable(Tail(sorted), p)
         ELSE <<p>> \o sorted

\* Array.prototype.sort with comparator (a, b) => b.k - a.k on [k, v] pairs:
\* descending by k, stable (ECMAScript 2019)
RECURSIVE InsertDesc(_, _)
InsertDesc(sorted, p) ==
    IF sorted = <<>> THEN <<p>>
    ELSE IF Head(sorted).k >= p.k
         THEN <<Head(sorted)>> \o InsertDesc(Tail(sorted), p)
         ELSE <<p>> \o sorted

RECURSIVE SortDesc(_)
SortDesc(pairs) ==
    IF pairs = <<>> THEN <<>>
    ELSE InsertDesc(SortDesc(SubSeq(pairs, 1, Len(pairs) - 1)), pairs[Len(pairs)])

----------------------------------------------------------------------------
(* The analysis load: routes/analysis/+page.server.ts *)

\* line 49-52: the filter behind activeContracts
IsActive(c, clock) ==
    IF c.end_date = NoDate THEN TRUE
    ELSE ~isPast(Midnight(c.end_date), clock)

activeContracts(cs, clock) == SelectSeq(cs, LAMBDA c : IsActive(c, clock))

\* the snapshot narrowed to the date range of the request
monthlyRecurringCostInRange(cs, clock) ==
    SumSeq(Field(SelectSeq(activeContracts(cs, clock),
                           LAMBDA c : /\ c.payment_terms = "monthly"
                                      /\ c.contract_value # 0
                                      /\ (params.end = NoDate \/ c.start_date <= params.end)),
                 "contract_value"))

\* line 54-56
monthlyRecurringCost(cs, clock) ==
    SumSeq(Field(SelectSeq(activeContracts(cs, clock),
                           LAMBDA c : c.payment_terms = "monthly" /\ c.contract_value # 0),
                 "contract_value"))

\* line 58-68
AnnualizedOf(c) ==
    IF c.payment_terms = "monthly" /\ c.contract_value # 0 THEN c.contract_value * 12
    ELSE IF c.payment_terms = "yearly" /\ c.contract_value # 0 THEN c.contract_value
    ELSE 0

totalAnnualizedSpend(cs, clock) ==
    LET act == SelectSeq(activeContracts(cs, clock),
                         LAMBDA c : c.payment_terms \in {"monthly", "yearly"})
    IN  SumSeq([i \in 1..Len(act) |-> AnnualizedOf(act[i])])

\* line 72: the analysis interval is the twelve months up to the clock
interval(clock) == [start |-> subMonths(clock, 12), end |-> clock]

\* line 75-85
oneTimeContractsValueYTD(cs, clock) ==
    SumSeq(Field(SelectSeq(cs, LAMBDA c : /\ c.payment_terms = "one_time"
                                          /\ c.start_date # NoDate
                                          /\ getYear(Midnight(c.start_date)) = getYear(clock)),
                 "contract_value"))

\* line 88-90: [...activeContracts].sort(...).slice(0, 5)
TopN == 5

\* the ranking drawn from every contract of the store
top5OfAll(cs, clock) ==
    LET sorted == SortDesc([i \in 1..Len(cs) |-> [k |-> cs[i].contract_value, v |-> cs[i]]])
    IN  Field(SubSeq(sorted, 1, Min(TopN, Len(sorted))), "v")

top5Contracts(cs, clock) ==
    LET act    == activeContracts(cs, clock)
        sorted == SortDesc([i \in 1..Len(act) |-> [k |-> act[i].contract_value, v |-> act[i]]])
    IN  Field(SubSeq(sorted, 1, Min(TopN, Len(sorted))), "v")

\* line 101-128: the spend of one contract inside the interval
OverlapStart(c, iv) ==
    \* an absent start_date parses to an Invalid Date, every comparison with
    \* which is false: the interval's start is taken
    IF c.start_date # NoDate /\ Midnight(c.start_date) > iv.start
    THEN Midnight(c.start_date) ELSE iv.start

OverlapEnd(c, iv) ==
    LET contractEndDate == IF c.end_date # NoDate THEN Midnight(c.end_date) ELSE FarFuture
    IN  IF contractEndDate < iv.end THEN contractEndDate ELSE iv.end

\* an overlap of a single instant taken for one
ValidOverlapClosed(c, iv) == OverlapStart(c, iv) <= OverlapEnd(c, iv)

ValidOverlap(c, iv) == OverlapStart(c, iv) < OverlapEnd(c, iv)

\* the months counted without the month the overlap ends in
MonthsInIntervalExclusive(c, iv) ==
    Max(0, differenceInCalendarMonths(OverlapEnd(c, iv), OverlapStart(c, iv)))

MonthsInInterval(c, iv) ==
    LET m == differenceInCalendarMonths(OverlapEnd(c, iv), OverlapStart(c, iv))
    IN  Max(0, IF m >= 0 THEN m + 1 ELSE m)

\* a one-time charge recognised whenever the contract's range overlaps
OneTimeOverlaps(c, iv) ==
    /\ c.start_date # NoDate
    /\ Midnight(c.start_date) <= iv.end
    /\ (c.end_date = NoDate \/ Midnight(c.end_date) >= iv.start)

OneTimeInInterval(c, iv) ==
    c.start_date # NoDate /\ isWithinInterval(Midnight(c.start_date), iv)

\* a yearly contract recognised as a lump sum on its start date
SpendYearlyLump(c, iv) ==
    IF c.payment_terms \in {"one_time", "yearly"}
    THEN (IF OneTimeInInterval(c, iv) THEN c.contract_value ELSE 0)
    ELSE IF ValidOverlap(c, iv)
         THEN c.contract_value * MonthsInInterval(c, iv)
         ELSE 0

Spend(c, iv) ==
    IF c.payment_terms = "one_time"
    THEN (IF OneTimeInInterval(c, iv) THEN c.contract_value ELSE 0)
    ELSE IF ValidOverlap(c, iv)
         THEN (IF c.payment_terms = "monthly" THEN c.contract_value
               ELSE c.contract_value \div 12) * MonthsInInterval(c, iv)
         ELSE 0

\* a map whose entry is set to the amount instead of being added to
MapAddOverwrites(map, name, amount) ==
    IF \E i \in 1..Len(map) : map[i].name = name
    THEN [i \in 1..Len(map) |->
            IF map[i].name = name THEN [map[i] EXCEPT !.total = amount] ELSE map[i]]
    ELSE Append(map, [name |-> name, total |-> amount])

\* line 131-132: Map.set(name, (Map.get(name) || 0) + spend); a Map keeps its
\* keys in the order of their first insertion
MapAdd(map, name, amount) ==
    IF \E i \in 1..Len(map) : map[i].name = name
    THEN [i \in 1..Len(map) |->
            IF map[i].name = name THEN [map[i] EXCEPT !.total = @ + amount] ELSE map[i]]
    ELSE Append(map, [name |-> name, total |-> amount])

VendorKey(c) == IF c.vendor_name = "" THEN "Unknown Vendor" ELSE c.vendor_name

TypeKey(c) == IF c.contract_type = "" THEN "Uncategorized" ELSE c.contract_type

\* the maps with every contract recorded, whatever its spend
RECURSIVE SpendMapAll(_, _, _)
SpendMapAll(cs, iv, dim) ==
    IF cs = <<>> THEN <<>>
    ELSE LET rest == SpendMapAll(SubSeq(cs, 1, Len(cs) - 1), iv, dim)
             c    == cs[Len(cs)]
         IN  MapAdd(rest, IF dim = "vendor" THEN VendorKey(c) ELSE TypeKey(c),
                    Spend(c, iv))

\* line 96-134, for one of the two maps (dim is "vendor" or "type")
RECURSIVE SpendMap(_, _, _)
SpendMap(cs, iv, dim) ==
    IF cs = <<>> THEN <<>>
    ELSE LET rest == SpendMap(SubSeq(cs, 1, Len(cs) - 1), iv, dim)
             c    == cs[Len(cs)]
         IN  IF c.contract_value = 0 THEN rest
             ELSE IF Spend(c, iv) > 0
                  THEN MapAdd(rest, IF dim = "vendor" THEN VendorKey(c) ELSE TypeKey(c),
                              Spend(c, iv))
                  ELSE rest

\* the entries added one by one to a map
RECURSIVE MapAddAll(_, _)
MapAddAll(map, entries) ==
    IF entries = <<>> THEN map
    ELSE MapAddAll(MapAdd(map, Head(entries).name, Head(entries).total), Tail(entries))

\* the vendor map kept between two runs of the load instead of being built
\* anew by each
spendByVendorShared(cs, clock) ==
    LET prev == IF loaded = "ok" THEN data.spendByVendor ELSE <<>>
        m    == MapAddAll(prev, SpendMap(cs, interval(clock), "vendor"))
    IN  Field(SortDesc([i \in 1..Len(m) |-> [k |-> m[i].total, v |-> m[i]]]), "v")

\* line 136-138: sorted by total, descending
spendByVendor(cs, clock) ==
    LET m == SpendMap(cs, interval(clock), "vendor")
    IN  Field(SortDesc([i \in 1..Len(m) |-> [k |-> m[i].total, v |-> m[i]]]), "v")

\* the type totals sorted as the vendor totals are
spendByTypeSorted(cs, clock) ==
    LET m == SpendMap(cs, interval(clock), "type")
    IN  Field(SortDesc([i \in 1..Len(m) |-> [k |-> m[i].total, v |-> m[i]]]), "v")

\* line 139: in insertion order
spendByType(cs, clock) == SpendMap(cs, interval(clock), "type")

\* line 141-151: twelve month buckets ending at the month of the clock, each
\* keyed 'yyyy-MM' (here: the month index) and labelled 'MMM yy'
TrendMonths == 12

MonthAbbr ==
    <<"Jan", "Feb", "Mar", "Apr", "May", "Jun",
      "Jul", "Aug", "Sep", "Oct", "Nov", "Dec">>

\* format(date, 'MMM yy')
Label(mi) == <<MonthAbbr[(mi % 12) + 1], (mi \div 12) % 100>>

\* one bucket for every month the interval touches, its first included
TrendKeysOfInterval(clock) ==
    [j \in 1..(TrendMonths + 1) |->
        MonthIndex(DateOf(subMonths(clock, TrendMonths + 1 - j)))]

TrendKeys(clock) ==
    [j \in 1..TrendMonths |->
        MonthIndex(DateOf(subMonths(clock, TrendMonths - j)))]

PrevDay(date) ==
    IF DayOfMonth(date) > 1 THEN date - 1
    ELSE (MonthIndex(date) - 1) * 31 + (DaysInMonth(MonthIndex(date) - 1) - 1)

\* line 156-157: new Date('YYYY-MM-DD') is midnight UTC, which west of
\* Greenwich is an evening of the previous local day
UtcParse(date) == IF tz = "west" THEN PrevDay(date) * 2 + 1 ELSE date * 2

TrendStart(c) == UtcParse(c.start_date)

TrendEnd(c) ==
    IF c.end_date # NoDate THEN UtcParse(c.end_date) ELSE UtcParse(MkDate(2999, 12, 31))

\* startOfMonth
startOfMonth(t) == (MonthIndex(DateOf(t)) * 31) * 2

\* line 169: the interval a recurring contract is charged in
ActiveSpan(c) == [start |-> startOfMonth(TrendStart(c)), end |-> TrendEnd(c)]

\* date-fns 2 rejects an interval whose start is after its end with a
\* RangeError; date-fns 3 and 4 take the two ends in order
SpanInverted(c) == ActiveSpan(c).start > ActiveSpan(c).end

InTrendSpan(c, mi) ==
    LET sp == ActiveSpan(c)
        iv == IF SpanInverted(c) THEN [start |-> sp.end, end |-> sp.start] ELSE sp
    IN  isWithinInterval((mi * 31) * 2, iv)

\* line 153-174: what one contract adds to the bucket of month mi
TrendShare(c, mi) ==
    IF c.contract_value = 0 \/ c.start_date = NoDate THEN 0
    ELSE IF c.payment_terms = "one_time"
         THEN (IF MonthIndex(DateOf(TrendStart(c))) = mi THEN c.contract_value ELSE 0)
         ELSE IF InTrendSpan(c, mi)
              THEN (IF c.payment_terms = "monthly" THEN c.contract_value
                    ELSE c.contract_value \div 12)
              ELSE 0

spendTrend(cs, clock) ==
    LET keys == TrendKeys(clock)
    IN  [labels |-> [j \in 1..Len(keys) |-> Label(keys[j])],
         data   |-> [j \in 1..Len(keys) |->
                        SumSeq([i \in 1..Len(cs) |-> TrendShare(cs[i], keys[j])])]]

\* line 169 under date-fns 2: the load rejects with a RangeError
LoadThrows(cs) ==
    /\ dateFns = "v2"
    /\ \E i \in 1..Len(cs) :
          /\ cs[i].contract_value # 0
          /\ cs[i].start_date # NoDate
          /\ cs[i].payment_terms # "one_time"
          /\ SpanInverted(cs[i])

\* line 182: the distinct truthy contract types, sorted
TypeNames == <<"Insurance", "Subscription">>

allTypes(cs) ==
    SelectSeq(TypeNames, LAMBDA n : \E i \in 1..Len(cs) : cs[i].contract_type = n)

\* line 184-193
LoadResult(cs, clock) ==
    [monthlyRecurringCost     |-> monthlyRecurringCost(cs, clock),
     totalAnnualizedSpend     |-> totalAnnualizedSpend(cs, clock),
     oneTimeContractsValueYTD |-> oneTimeContractsValueYTD(cs, clock),
     spendByVendor            |-> spendByVendor(cs, clock),
     spendByType              |-> spendByType(cs, clock),
     spendTrend               |-> spendTrend(cs, clock),
     allTypes                 |-> allTypes(cs),
     top5Contracts            |-> top5Contracts(cs, clock)]

\* line 32-41
ErrorResult ==
    [monthlyRecurringCost     |-> 0,
     totalAnnualizedSpend     |-> 0,
     oneTimeContractsCountYTD |-> 0,
     oneTimeContractsValueYTD |-> 0,
     spendByType              |-> <<>>,
     spendTrend               |-> [labels |-> <<>>, data |-> <<>>],
     allTypes                 |-> <<>>,
     top5Contracts            |-> <<>>]

\* no page data: the analysis page is not displayed
NoData == [none |-> TRUE]

----------------------------------------------------------------------------
(* The inputs the model draws from *)

\* the clock: 15 March 2025 at midnight exactly and later that day, and the
\* day after
Today == MkDate(2025, 3, 15)

Nows == {Midnight(Today), Midnight(Today) + 1, Midnight(Today + 1) + 1}

\* stored dates around the interval [15 March 2024, 15 March 2025]: before
\* it, on its first day, inside it, on its last day, after it
Dates ==
    {MkDate(2023, 12, 20), MkDate(2024, 3, 15), MkDate(2024, 3, 20),
     MkDate(2024, 11, 5), MkDate(2025, 3, 15), MkDate(2025, 4, 10)}

Terms == {"one_time", "monthly", "yearly"}

Zones == {"utc", "west"}

Versions == {"v2", "v3"}

NoParams == [start |-> NoDate, end |-> NoDate]

\* the date range the analysis page puts into the URL
ParamSets ==
    {[start |-> MkDate(2024, 1, 1), end |-> MkDate(2024, 3, 31)],
     [start |-> MkDate(2024, 1, 1), end |-> MkDate(2024, 12, 31)]}

\* an absent file_path
NoFile == 0

\* a row of the contracts table (the Contract type)
Row(id, vendor, type, terms, value, start, end, renewal) ==
    [id            |-> id,
     contract_name |-> "Lease",
     vendor_name   |-> vendor,
     contract_type |-> type,
     payment_terms |-> terms,
     contract_value |-> value,
     start_date    |-> start,
     end_date      |-> end,
     renewal_type  |-> renewal,
     file_path     |-> NoFile]

----------------------------------------------------------------------------
(* Actions *)

\* analysis/+page.server.ts load, line 25-194: the fetch, and on success the
\* whole computation
RunLoad ==
    \E err \in BOOLEAN :
        /\ loadNow' = now
        /\ IF err
           THEN loaded' = "error" /\ data' = ErrorResult
           ELSE IF LoadThrows(contracts)
                THEN loaded' = "threw" /\ data' = NoData
                ELSE loaded' = "ok" /\ data' = LoadResult(contracts, now)

\* the analysis page is opened
Load ==
    /\ RunLoad
    /\ UNCHANGED <<contracts, now, tz, dateFns, params, dashboard, files, response, chart>>

\* analysis/+page.svelte applyDateFilter: the chosen range goes into the URL
\* and the navigation runs the load again
ApplyDateFilter ==
    /\ loaded = "ok"
    /\ \E p \in ParamSets : params' = p
    /\ RunLoad
    /\ UNCHANGED <<contracts, now, tz, dateFns, dashboard, files, response, chart>>

\* the date ranges a request may carry: none, a quarter, a single day, and
\* two whose start is after their end
RangeParams ==
    {NoParams,
     [start |-> MkDate(2024, 1, 1),   end |-> MkDate(2024, 3, 31)],
     [start |-> MkDate(2024, 6, 10),  end |-> MkDate(2024, 6, 10)],
     [start |-> MkDate(2024, 12, 31), end |-> MkDate(2024, 1, 1)],
     [start |-> MkDate(2025, 6, 30),  end |-> NoDate]}

\* the Interval Resolver of the interval-scoped load: end defaults to the
\* clock, start to the first day of the clock's year; both are parsed at
\* local midnight; start <= end is not validated
ResolveInterval(p, clock) ==
    [start |-> IF p.start # NoDate THEN Midnight(p.start)
               ELSE Midnight(MkDate(getYear(clock), 1, 1)),
     end   |-> IF p.end # NoDate THEN Midnight(p.end) ELSE clock]

\* line 105 under date-fns 2, given an interval whose start is after its end
RangeThrows(cs, iv) ==
    /\ dateFns = "v2"
    /\ iv.start > iv.end
    /\ \E i \in 1..Len(cs) :
          /\ cs[i].contract_value # 0
          /\ cs[i].payment_terms = "one_time"
          /\ cs[i].start_date # NoDate

\* the interval-scoped load: the allocation of line 96-128 over the interval
\* the request resolves to
LoadRange ==
    /\ \E p \in RangeParams : params' = p
    /\ loadNow' = now
    /\ LET iv == ResolveInterval(params', now)
       IN  IF RangeThrows(contracts, iv)
           THEN loaded' = "threw" /\ data' = NoData
           ELSE /\ loaded' = "range"
                /\ data' = [interval |-> iv,
                            spend    |-> [i \in 1..Len(contracts) |->
                                             IF contracts[i].contract_value = 0 THEN 0
                                             ELSE Spend(contracts[i], iv)]]
    /\ UNCHANGED <<contracts, now, tz, dateFns, dashboard, files, response, chart>>

\* time passes
Tick ==
    /\ \E t \in Nows : t > now /\ now' = t
    /\ UNCHANGED <<contracts, tz, dateFns, params, loaded, loadNow, data, dashboard, files, response, chart>>

\* the create form's fields; endDateType "" is a request without the field
\* (the radio inputs of new/+page.svelte line 68-70 carry no name), and
\* contract_file says whether a file of positive size was attached
Forms ==
    [contract_name : {"", "Lease"},
     start_date    : {NoDate, MkDate(2024, 11, 5)},
     end_date      : {NoDate, MkDate(2024, 3, 20), MkDate(2025, 4, 10)},
     endDateType   : {"", "specific", "monthly", "yearly"},
     contract_file : BOOLEAN]

\* the create action's validation (unnamed/part_000 line 80-108)
CreateRejects(f) ==
    \/ f.contract_name = ""
    \/ f.start_date = NoDate
    \/ (f.endDateType = "specific" /\ f.end_date = NoDate)
    \/ (f.start_date # NoDate /\ f.end_date # NoDate /\ f.end_date < f.start_date)

\* the row the create action inserts (line 129-143)
CreatedRow(f, id, filePath) ==
    [id             |-> id,
     contract_name  |-> f.contract_name,
     vendor_name    |-> "Acme",
     contract_type  |-> "Insurance",
     payment_terms  |-> "monthly",
     contract_value |-> 120,
     start_date     |-> f.start_date,
     end_date       |-> IF f.endDateType = "specific" THEN f.end_date ELSE NoDate,
     renewal_type   |-> IF f.endDateType = "specific" THEN "" ELSE f.endDateType,
     file_path      |-> filePath]

\* the create action with the upload ahead of the validation
CreateOutcomeUploadFirst(f, uploadError, insertError) ==
    IF f.contract_file /\ uploadError
    THEN [status |-> 500, uploaded |-> FALSE, inserted |-> FALSE]
    ELSE IF CreateRejects(f)
         THEN [status |-> 400, uploaded |-> f.contract_file, inserted |-> FALSE]
         ELSE IF insertError
              THEN [status |-> 500, uploaded |-> f.contract_file, inserted |-> FALSE]
              ELSE [status |-> 303, uploaded |-> f.contract_file, inserted |-> TRUE]

\* the order of the create action (line 79-150): validation, then the upload
\* of an attached file, then the insert; each failure returns at once, and
\* nothing that was done before it is undone
CreateOutcome(f, uploadError, insertError) ==
    IF CreateRejects(f)
    THEN [status |-> 400, uploaded |-> FALSE, inserted |-> FALSE]
    ELSE IF f.contract_file /\ uploadError
         THEN [status |-> 500, uploaded |-> FALSE, inserted |-> FALSE]
         ELSE IF insertError
              THEN [status |-> 500, uploaded |-> f.contract_file, inserted |-> FALSE]
              ELSE [status |-> 303, uploaded |-> f.contract_file, inserted |-> TRUE]

\* line 114: `${Date.now()}-${file.name}`, a name the bucket does not hold yet
NewFileName == Cardinality(files) + 1

\* the create action (unnamed/part_000 line 70-152): a request that fails
\* leaves the analysis page as it is; a saved one redirects to the dashboard,
\* which leaves the analysis page
Create ==
    /\ Len(contracts) < MaxContracts
    /\ \E f \in Forms, uploadError \in BOOLEAN, insertError \in BOOLEAN :
        LET out == CreateOutcome(f, uploadError, insertError)
            filePath == IF out.uploaded THEN NewFileName ELSE NoFile
        IN  /\ f.contract_file => Cardinality(files) < MaxFiles
            /\ files' = IF out.uploaded THEN files \cup {filePath} ELSE files
            /\ response' = [action |-> "create", status |-> out.status, form |-> f]
            /\ IF out.inserted
               THEN /\ contracts' = Append(contracts,
                                           CreatedRow(f, Len(contracts) + 1, filePath))
                    /\ loaded' = "none"
                    /\ data' = NoData
                    /\ params' = NoParams
               ELSE UNCHANGED <<contracts, loaded, data, params>>
            /\ UNCHANGED <<now, tz, dateFns, loadNow, dashboard, chart>>

\* the edit form's fields; the fields the model does not vary are sent back
\* as the form was filled from the stored row
EditForms ==
    [contract_name : {"", "Lease"},
     start_date    : {NoDate, MkDate(2024, 11, 5)},
     end_date      : {NoDate, MkDate(2024, 3, 20), MkDate(2025, 4, 10)},
     renewal_type  : {"", "yearly"}]

\* the edit action's validation (unnamed/part_000 line 29-34): the name and the
\* start date are required, the end date is not looked at
EditRejects(f) ==
    \/ f.contract_name = ""
    \/ f.start_date = NoDate

\* the update of line 42-57
EditedRow(row, f) ==
    [row EXCEPT !.contract_name = f.contract_name,
                !.start_date    = f.start_date,
                !.end_date      = f.end_date,
                !.renewal_type  = f.renewal_type]

\* the edit action (unnamed/part_000 line 20-65): a rejected or failed request
\* leaves the store as it is; a saved one redirects to the contract's page
Edit ==
    \E i \in 1..Len(contracts), f \in EditForms, updateError \in BOOLEAN :
        LET status == IF EditRejects(f) THEN 400 ELSE IF updateError THEN 500 ELSE 303
        IN  /\ response' = [action |-> "edit", status |-> status, form |-> f]
            /\ IF status = 303
               THEN /\ contracts' = [contracts EXCEPT ![i] = EditedRow(@, f)]
                    /\ loaded' = "none"
                    /\ data' = NoData
                    /\ params' = NoParams
               ELSE UNCHANGED <<contracts, loaded, data, params>>
            /\ UNCHANGED <<now, tz, dateFns, loadNow, dashboard, files, chart>>

----------------------------------------------------------------------------
(* The Chart component (lib/components/Chart.svelte): chart.instances are   *)
(* the Chart.js instances that were created and not destroyed, chart.held   *)
(* is the instance the effect's cleanup closes over, chart.scheduled says   *)
(* that the effect is due to run.                                           *)

NoInstance == 0

ChartProps == [type : {"bar", "line", "doughnut"}, data : {"spendByVendor", "spendTrend"}]

Unmounted ==
    [mounted |-> FALSE, scheduled |-> FALSE, props |-> [type |-> "bar", data |-> "spendByVendor"],
     instances |-> {}, held |-> NoInstance, made |-> 0]

\* an effect that returns no cleanup: the instance it made is let go of, not
\* destroyed
CleanupForgets(ch) ==
    [ch EXCEPT !.held = NoInstance]

\* line 33-35: the cleanup the effect returned destroys the instance it made
Cleanup(ch) ==
    [ch EXCEPT !.instances = {i \in @ : i.id # ch.held},
               !.held = NoInstance]

\* the component is put on the page with its props; the effect is due once
\* the canvas is bound
MountChart ==
    /\ ~chart.mounted
    /\ chart.made < MaxCharts
    /\ \E p \in ChartProps :
          chart' = [chart EXCEPT !.mounted = TRUE, !.scheduled = TRUE, !.props = p]
    /\ UNCHANGED <<contracts, now, tz, dateFns, params, loaded, loadNow, data, dashboard,
                   files, response>>

\* the parent passes another type, data or options: the effect read them
\* (line 24-28), so it is due again
SetChartProps ==
    /\ chart.mounted
    /\ chart.made < MaxCharts
    /\ \E p \in ChartProps :
          /\ p # chart.props
          /\ chart' = [chart EXCEPT !.scheduled = TRUE, !.props = p]
    /\ UNCHANGED <<contracts, now, tz, dateFns, params, loaded, loadNow, data, dashboard,
                   files, response>>

\* before the effect runs again, the cleanup of its last run is run
TeardownEffect ==
    /\ chart.mounted /\ chart.scheduled /\ chart.held # NoInstance
    /\ chart' = Cleanup(chart)
    /\ UNCHANGED <<contracts, now, tz, dateFns, params, loaded, loadNow, data, dashboard,
                   files, response>>

\* line 22-29: the effect creates an instance from the current props
RunEffect ==
    /\ chart.mounted /\ chart.scheduled /\ chart.held = NoInstance
    /\ LET made == [id |-> chart.made + 1, props |-> chart.props]
       IN  chart' = [chart EXCEPT !.instances = @ \cup {made},
                                  !.held = made.id,
                                  !.made = @ + 1,
                                  !.scheduled = FALSE]
    /\ UNCHANGED <<contracts, now, tz, dateFns, params, loaded, loadNow, data, dashboard,
                   files, response>>

\* the component is taken off the page: the cleanup of the last run is run,
\* and an effect that was due does not run
UnmountChart ==
    /\ chart.mounted
    /\ chart' = [(IF chart.held # NoInstance THEN Cleanup(chart) ELSE chart)
                    EXCEPT !.mounted = FALSE, !.scheduled = FALSE]
    /\ UNCHANGED <<contracts, now, tz, dateFns, params, loaded, loadNow, data, dashboard,
                   files, response>>

\* the component alone
NextChart == MountChart \/ SetChartProps \/ TeardownEffect \/ RunEffect \/ UnmountChart

\* the two form actions alone
NextForms == Create \/ Edit

Next == Load \/ ApplyDateFilter \/ Tick \/ Create \/ Edit

\* the analysis page alone, over a store that does not change
NextAnalysis == Load \/ ApplyDateFilter \/ Tick

\* the load alone
NextLoad == Load

----------------------------------------------------------------------------
(* The dashboard: routes/+page.server.ts and the ContractTable component    *)
(* (unnamed/part_002).  dashboard holds the contracts prop of the table and *)
(* the table's sorting state; sortedContracts is derived from them.         *)

\* .order('end_date', { ascending: true }): ascending, rows without end_date
\* last
RECURSIVE InsertByEndDate(_, _)
InsertByEndDate(sorted, c) ==
    IF sorted = <<>> THEN <<c>>
    ELSE IF Head(sorted).end_date # NoDate
            /\ (c.end_date = NoDate \/ Head(sorted).end_date <= c.end_date)
         THEN <<Head(sorted)>> \o InsertByEndDate(Tail(sorted), c)
         ELSE IF Head(sorted).end_date = NoDate /\ c.end_date = NoDate
              THEN <<Head(sorted)>> \o InsertByEndDate(Tail(sorted), c)
              ELSE <<c>> \o sorted

RECURSIVE OrderByEndDate(_)
OrderByEndDate(cs) ==
    IF cs = <<>> THEN <<>>
    ELSE InsertByEndDate(OrderByEndDate(SubSeq(cs, 1, Len(cs) - 1)), cs[Len(cs)])

\* the columns of the table the model sorts by
SortableColumns == {"start_date", "end_date", "contract_value"}

\* line 80-92 getSortableValue: null, or a value that compares as k
getSortableValue(c, key) ==
    IF key = "end_date"
    THEN IF c.renewal_type = "yearly" THEN [null |-> FALSE, k |-> MkDate(9999, 12, 31)]
         ELSE IF c.renewal_type = "monthly" THEN [null |-> FALSE, k |-> MkDate(9999, 12, 30)]
         ELSE IF c.end_date # NoDate THEN [null |-> FALSE, k |-> c.end_date]
         ELSE [null |-> TRUE, k |-> 0]
    ELSE IF key = "start_date"
         THEN [null |-> c.start_date = NoDate, k |-> c.start_date]
         ELSE [null |-> c.contract_value = 0, k |-> c.contract_value]

\* a comparator that takes null for the least value and lets the direction
\* turn it round
ComparatorNullsLeast(a, b, column, direction) ==
    LET valA == getSortableValue(a, column)
        valB == getSortableValue(b, column)
        kA == IF valA.null THEN 0 - 1 ELSE valA.k
        kB == IF valB.null THEN 0 - 1 ELSE valB.k
    IN  IF direction = "asc" THEN kA - kB ELSE kB - kA

\* line 94-109: the comparator; below 0 when a goes before b
Comparator(a, b, column, direction) ==
    LET valA == getSortableValue(a, column)
        valB == getSortableValue(b, column)
    IN  IF valA.null THEN 1
        ELSE IF valB.null THEN 0 - 1
        ELSE IF direction = "asc" THEN valA.k - valB.k ELSE valB.k - valA.k

\* Array.prototype.sort with that comparator: stable; c goes before the first
\* element it compares below
RECURSIVE InsertByColumn(_, _, _, _)
InsertByColumn(sorted, c, column, direction) ==
    IF sorted = <<>> THEN <<c>>
    ELSE IF Comparator(c, Head(sorted), column, direction) < 0
         THEN <<c>> \o sorted
         ELSE <<Head(sorted)>> \o InsertByColumn(Tail(sorted), c, column, direction)

RECURSIVE SortByColumn(_, _, _)
SortByColumn(cs, column, direction) ==
    IF cs = <<>> THEN <<>>
    ELSE InsertByColumn(SortByColumn(SubSeq(cs, 1, Len(cs) - 1), column, direction),
                        cs[Len(cs)], column, direction)

\* line 72-111: sortedContracts, derived from the prop and the sorting state
sortedContracts ==
    SortByColumn(dashboard.contracts, dashboard.sortColumn, dashboard.sortDirection)

\* the prop sorted in place
PropSortedInPlace(prop, column, direction) == SortByColumn(prop, column, direction)

\* line 78: [...contracts].sort(...) sorts a copy; the prop is what it was
PropAfterSort(prop, column, direction) == prop

\* c.notice_period_days ?? 30: the rows of the model carry no notice period
DefaultNoticeDays == 30

\* the dashboard page's status of a contract at the time clock
\* (routes/new/+page.svelte line 243-261)
currentStatus(c, clock) ==
    IF c.end_date # NoDate
    THEN IF isPast(Midnight(c.end_date), clock) THEN "Expired"
         ELSE IF differenceInDays(Midnight(c.end_date), clock) <= DefaultNoticeDays
              THEN (IF c.renewal_type = "yearly" THEN "Renewing Soon" ELSE "Expiring Soon")
              ELSE IF c.renewal_type # "" THEN "Auto-Renew" ELSE "Active"
    ELSE "Active"

\* line 241-263: the status of each contract of the page's data, computed
\* when the page got the data
contractsWithStatus ==
    [i \in 1..Len(dashboard.contracts) |->
        currentStatus(dashboard.contracts[i], dashboard.at)]

\* routes/+page.server.ts load and the mounting of the table: the rows as
\* fetched, sorting state as declared (part_002 line 54-55), sortedContracts
\* computed
OpenDashboard ==
    /\ \E error \in BOOLEAN :
          LET fetched == IF error THEN <<>> ELSE OrderByEndDate(contracts)
          IN  dashboard' = [contracts     |-> PropAfterSort(fetched, "start_date", "desc"),
                            sortColumn    |-> "start_date",
                            sortDirection |-> "desc",
                            clicked       |-> FALSE,
                            at            |-> now]
    /\ UNCHANGED <<contracts, now, tz, dateFns, params, loaded, loadNow, data, files, response, chart>>

\* a handleSort that keeps the direction when the column changes
SortStateKeepsDirection(sortColumn, sortDirection, column) ==
    IF sortColumn = column
    THEN [sortColumn    |-> sortColumn,
          sortDirection |-> IF sortDirection = "asc" THEN "desc" ELSE "asc"]
    ELSE [sortColumn |-> column, sortDirection |-> sortDirection]

\* line 59-67 handleSort: the sorting state after a click on column
SortState(sortColumn, sortDirection, column) ==
    IF sortColumn = column
    THEN [sortColumn    |-> sortColumn,
          sortDirection |-> IF sortDirection = "asc" THEN "desc" ELSE "asc"]
    ELSE [sortColumn |-> column, sortDirection |-> "asc"]

\* a click on a column header: handleSort, and the recomputation of
\* sortedContracts
handleSort ==
    /\ dashboard # NoData
    /\ \E column \in SortableColumns :
          LET next == SortState(dashboard.sortColumn, dashboard.sortDirection, column)
          IN  dashboard' = [contracts     |-> PropAfterSort(dashboard.contracts,
                                                            next.sortColumn, next.sortDirection),
                            sortColumn    |-> next.sortColumn,
                            sortDirection |-> next.sortDirection,
                            clicked       |-> TRUE,
                            at            |-> dashboard.at]
    /\ UNCHANGED <<contracts, now, tz, dateFns, params, loaded, loadNow, data, files, response, chart>>

\* the dashboard and the analysis load over a store that does not change
NextDashboard == OpenDashboard \/ handleSort \/ Load

\* the interval-scoped load alone
NextRange == LoadRange

----------------------------------------------------------------------------
(* Specifications *)

InitEnv ==
    /\ now \in Nows
    /\ tz \in Zones
    /\ dateFns \in Versions
    /\ params = NoParams
    /\ loaded = "none"
    /\ loadNow = now
    /\ data = NoData
    /\ dashboard = NoData
    /\ files = {}
    /\ response = NoData
    /\ chart = Unmounted

\* an empty store
Init == contracts = <<>> /\ InitEnv

Spec == Init /\ [][Next]_vars

\* the create and edit actions over a store that starts empty
InitForms == Init /\ now = Midnight(Today) /\ tz = "utc" /\ dateFns = "v3"

SpecForms == InitForms /\ [][NextForms]_vars

\* one Chart component, from before it is mounted
InitChart == Init /\ now = Midnight(Today) /\ tz = "utc" /\ dateFns = "v3"

SpecChart == InitChart /\ [][NextChart]_vars

\* a store holding one contract, of any dates, terms and value
InitOne ==
    /\ \E s \in Dates \cup {NoDate}, e \in Dates \cup {NoDate},
          t \in Terms, v \in {0, 120} :
          contracts = <<Row(1, "Acme", "Insurance", t, v, s, e, "")>>
    /\ InitEnv

SpecOne == InitOne /\ [][NextAnalysis]_vars

\* a store of up to MaxTop contracts that differ in value and in whether
\* they have ended; the six contracts of values 500, 500, 300, 100, 50, 10
TopOptions ==
    {[value |-> 0,   end |-> NoDate],
     [value |-> 500, end |-> NoDate],
     [value |-> 500, end |-> MkDate(2024, 11, 5)]}

TopRow(i, o) ==
    Row(i, "Acme", "Insurance", "monthly", o.value, MkDate(2024, 3, 20), o.end, "")

ExampleValues == <<500, 500, 300, 100, 50, 10>>

ExampleStore ==
    [i \in 1..6 |-> TopRow(i, [value |-> ExampleValues[i], end |-> NoDate])]

InitTop ==
    /\ \/ \E n \in 0..MaxTop : \E f \in [1..n -> TopOptions] :
             contracts = [i \in 1..n |-> TopRow(i, f[i])]
       \/ contracts = ExampleStore
    /\ InitEnv
    /\ tz = "utc"
    /\ dateFns = "v3"

SpecTop == InitTop /\ [][NextLoad]_vars

\* a store holding one recurring contract that starts or ends on the first
\* day of a month, or in the middle of one
InitTrend ==
    /\ \E s \in {MkDate(2024, 3, 20), MkDate(2024, 6, 1)},
          e \in {NoDate, MkDate(2024, 11, 1), MkDate(2024, 11, 5)},
          t \in {"monthly", "yearly"} :
          contracts = <<Row(1, "Acme", "Insurance", t, 120, s, e, "")>>
    /\ InitEnv

SpecTrend == InitTrend /\ [][NextAnalysis]_vars

\* a store holding one contract of value 120 that started before 2024 or in
\* June 2024
InitRange ==
    /\ \E s \in {MkDate(2023, 12, 20), MkDate(2024, 6, 10)},
          e \in {NoDate, MkDate(2025, 4, 10)},
          t \in Terms :
          contracts = <<Row(1, "Acme", "Insurance", t, 120, s, e, "")>>
    /\ InitEnv

SpecRange == InitRange /\ [][NextRange]_vars

\* a store of up to MaxStore contracts that differ in their dates, renewal and
\* value, so that the columns order them differently
DashOptions ==
    {[start |-> MkDate(2024, 3, 20),  end |-> MkDate(2024, 11, 5), renewal |-> "",       value |-> 120],
     [start |-> MkDate(2024, 11, 5),  end |-> MkDate(2025, 4, 10), renewal |-> "",       value |-> 500],
     [start |-> MkDate(2023, 12, 20), end |-> NoDate,              renewal |-> "yearly", value |-> 0],
     [start |-> NoDate,               end |-> NoDate,              renewal |-> "",       value |-> 120],
     [start |-> MkDate(2024, 6, 1),   end |-> MkDate(2025, 6, 1),  renewal |-> "yearly", value |-> 120]}

DashRow(i, o) ==
    Row(i, "Acme", IF i = 1 THEN "Insurance" ELSE "Subscription", "monthly",
        o.value, o.start, o.end, o.renewal)

InitDashboard ==
    /\ \E n \in 0..MaxStore : \E f \in [1..n -> DashOptions] :
          contracts = [i \in 1..n |-> DashRow(i, f[i])]
    /\ InitEnv
    /\ tz = "utc"
    /\ dateFns = "v3"

SpecDashboard == InitDashboard /\ [][NextDashboard]_vars

\* a store of up to MaxStore contracts of several vendors and types: two that
\* are allocated the same, a smaller and a larger one, one without vendor and
\* type, and four that are allocated nothing (a one_time contract before the
\* interval, a contract that starts after it, a contract without value, a
\* contract of negative value)
StoreOptions ==
    {[vendor |-> "Acme",   type |-> "Insurance",    terms |-> "monthly",  value |-> 120,
      start |-> MkDate(2023, 12, 20), end |-> NoDate],
     [vendor |-> "Globex", type |-> "Subscription", terms |-> "monthly",  value |-> 120,
      start |-> MkDate(2023, 12, 20), end |-> NoDate],
     [vendor |-> "Globex", type |-> "Insurance",    terms |-> "yearly",   value |-> 120,
      start |-> MkDate(2024, 11, 5),  end |-> NoDate],
     [vendor |-> "",       type |-> "",             terms |-> "one_time", value |-> 5000,
      start |-> MkDate(2024, 11, 5),  end |-> NoDate],
     [vendor |-> "Acme",   type |-> "Subscription", terms |-> "one_time", value |-> 120,
      start |-> MkDate(2023, 12, 20), end |-> NoDate],
     [vendor |-> "Acme",   type |-> "Insurance",    terms |-> "monthly",  value |-> 120,
      start |-> MkDate(2025, 4, 10),  end |-> NoDate],
     [vendor |-> "Globex", type |-> "Subscription", terms |-> "monthly",  value |-> 0,
      start |-> MkDate(2024, 3, 20),  end |-> NoDate],
     [vendor |-> "Acme",   type |-> "Insurance",    terms |-> "monthly",  value |-> 0 - 120,
      start |-> MkDate(2023, 12, 20), end |-> NoDate]}

StoreRow(i, o) == Row(i, o.vendor, o.type, o.terms, o.value, o.start, o.end, "")

InitStore ==
    /\ \E n \in 0..MaxStore : \E f \in [1..n -> StoreOptions] :
          contracts = [i \in 1..n |-> StoreRow(i, f[i])]
    /\ InitEnv
    /\ tz = "utc"
    /\ dateFns = "v3"

SpecStore == InitStore /\ [][NextLoad]_vars

----------------------------------------------------------------------------
(* Claims.  loadNow is the clock the displayed result was computed at, and  *)
(* the store does not change while the analysis page is displayed.          *)

Totals(entries) == SumSeq(Field(entries, "total"))

LoadInterval == interval(loadNow)

InTop5(c) == \E j \in 1..Len(data.top5Contracts) : data.top5Contracts[j] = c

\* the end of a contract's range in days: end_date, or the far future
EffectiveEnd(c) == IF c.end_date # NoDate THEN c.end_date ELSE MkDate(2999, 12, 31)

ClosedRangesMeet(c, ivl) ==
    /\ Midnight(c.start_date) <= Midnight(EffectiveEnd(c))
    /\ Midnight(c.start_date) <= ivl.end
    /\ Midnight(EffectiveEnd(c)) >= ivl.start

\* C2 as stated, for a clock past midnight: a monthly contract with a
\* start_date and a value is allocated spend in the interval if and only if
\* its closed range and the interval's meet, be it in a single day.
C2_Original ==
    (loaded = "ok" /\ Len(contracts) = 1 /\ TimeOfDay(loadNow) = 1) =>
        LET c == contracts[1]
        IN  (c.start_date # NoDate /\ c.payment_terms = "monthly" /\ c.contract_value > 0)
               => (Totals(data.spendByVendor) > 0 <=> ClosedRangesMeet(c, LoadInterval))

\* C2 as amended: a recurring contract with a start_date and a value is
\* allocated spend in the interval if and only if its range, from the
\* midnight of start_date to the midnight of the effective end date, and the
\* interval share more than a single instant.
C2_StrictOverlap ==
    (loaded = "ok" /\ Len(contracts) = 1) =>
        LET c == contracts[1]
            s == Midnight(c.start_date)
            e == Midnight(EffectiveEnd(c))
        IN  (c.start_date # NoDate /\ c.payment_terms # "one_time" /\ c.contract_value > 0)
               => (Totals(data.spendByVendor) > 0
                     <=> (s < e /\ s < LoadInterval.end /\ LoadInterval.start < e))

\* a monthly contract of a single day inside the interval gets nothing
C2_Witness ==
    /\ loaded = "ok"
    /\ Len(contracts) = 1
    /\ contracts[1].payment_terms = "monthly"
    /\ contracts[1].contract_value > 0
    /\ contracts[1].start_date = MkDate(2024, 3, 20)
    /\ contracts[1].end_date = MkDate(2024, 3, 20)
    /\ data.spendByVendor = <<>>

\* the overlap of C3, as instants
ClaimOverlapStart(c, ivl) ==
    IF c.start_date = NoDate THEN ivl.start ELSE Max(Midnight(c.start_date), ivl.start)

ClaimOverlapEnd(c, ivl) == Min(Midnight(EffectiveEnd(c)), ivl.end)

ClaimMonths(c, ivl) ==
    (MonthIndex(DateOf(ClaimOverlapEnd(c, ivl)))
        - MonthIndex(DateOf(ClaimOverlapStart(c, ivl)))) + 1

ExampleMonthly ==
    Row(1, "Acme", "Insurance", "monthly", 100, MkDate(2023, 12, 20), NoDate, "")

ExampleQuarter ==
    [start |-> Midnight(MkDate(2024, 1, 1)), end |-> Midnight(MkDate(2024, 3, 31))]

C4_OneTimeRecognition ==
    (loaded = "ok" /\ Len(contracts) = 1) =>
        LET c == contracts[1]
            within == /\ c.start_date # NoDate
                      /\ LoadInterval.start <= Midnight(c.start_date)
                      /\ Midnight(c.start_date) <= LoadInterval.end
        IN  c.payment_terms = "one_time"
               => /\ Totals(data.spendByVendor) = (IF within THEN c.contract_value ELSE 0)
                  /\ Totals(data.spendByType) = (IF within THEN c.contract_value ELSE 0)

\* a one_time contract that started before the interval and ends inside it
C4_Witness ==
    /\ loaded = "ok"
    /\ Len(contracts) = 1
    /\ contracts[1].payment_terms = "one_time"
    /\ contracts[1].contract_value > 0
    /\ contracts[1].start_date = MkDate(2023, 12, 20)
    /\ contracts[1].end_date = MkDate(2024, 11, 5)
    /\ data.spendByVendor = <<>>
    /\ data.spendByType = <<>>

\* the fields of a successful result that carry a number, and a list
NumberFields == {"monthlyRecurringCost", "totalAnnualizedSpend", "oneTimeContractsValueYTD"}

ListFields == {"spendByVendor", "spendByType", "top5Contracts"}

\* C5 as stated: when the fetch fails, every KPI field of the result is there
\* and is 0 or empty.
C5_Original ==
    loaded = "error" =>
        /\ \A f \in NumberFields : f \in DOMAIN data /\ data[f] = 0
        /\ \A f \in ListFields : f \in DOMAIN data /\ data[f] = <<>>
        /\ "spendTrend" \in DOMAIN data
        /\ data.spendTrend = [labels |-> <<>>, data |-> <<>>]

\* C6 as stated, for a contract that has a value: a contract without a
\* start_date is not in the active set and adds nothing to any snapshot KPI,
\* vendor or type total, or trend bucket.
C6_Original ==
    (/\ loaded = "ok"
     /\ Len(contracts) = 1
     /\ contracts[1].start_date = NoDate
     /\ contracts[1].contract_value > 0) =>
        /\ ~InTop5(contracts[1])
        /\ data.monthlyRecurringCost = 0
        /\ data.totalAnnualizedSpend = 0
        /\ data.spendByVendor = <<>>
        /\ data.spendByType = <<>>
        /\ \A j \in 1..Len(data.spendTrend.data) : data.spendTrend.data[j] = 0

\* is-currently-active of the claims: started, and not ended before today
ClaimActive(c, today) ==
    /\ c.start_date # NoDate
    /\ c.start_date <= today
    /\ (c.end_date = NoDate \/ c.end_date >= today)

\* C7 as stated, for a contract that has a start_date and a value: a contract
\* is in the active set, which with at most five contracts is what
\* top5Contracts lists, if and only if its start_date is not after today and
\* it has no end_date before today.
C7_Original ==
    (/\ loaded = "ok"
     /\ Len(contracts) = 1
     /\ contracts[1].start_date # NoDate
     /\ contracts[1].contract_value > 0) =>
        (InTop5(contracts[1]) <=> ClaimActive(contracts[1], DateOf(loadNow)))

\* C8 as stated, for contracts that have a value: monthlyRecurringCost is the
\* sum of contract_value over the currently active monthly contracts, and the
\* active-value snapshot KPI (the result's totalAnnualizedSpend) the sum of
\* contract_value over all currently active contracts, whatever their terms.
C8_Original ==
    (loaded = "ok" /\ \A i \in 1..Len(contracts) : contracts[i].contract_value > 0) =>
        LET act == SelectSeq(contracts, LAMBDA c : ClaimActive(c, DateOf(loadNow)))
        IN  /\ data.monthlyRecurringCost =
                 SumSeq(Field(SelectSeq(act, LAMBDA c : c.payment_terms = "monthly"),
                              "contract_value"))
            /\ data.totalAnnualizedSpend = SumSeq(Field(act, "contract_value"))

\* C9: top5Contracts holds at most five contracts, in non-increasing order of
\* value; every contract of the set it is drawn from that is left out is worth
\* no more than any contract kept; contracts of equal value stand in the order
\* of the collection, also across the cut; of the values
\* 500, 500, 300, 100, 50, 10 the first five are kept, in that order.
C9_TopNOrdering ==
    loaded = "ok" =>
        LET top  == data.top5Contracts
            from == activeContracts(contracts, loadNow)
            out  == {i \in 1..Len(from) : ~InTop5(from[i])}
        IN  /\ Len(top) = Min(5, Len(from))
            /\ \A j \in 1..Len(top) : \E i \in 1..Len(from) : from[i] = top[j]
            /\ \A j, k \in 1..Len(top) :
                  j < k => /\ top[j].contract_value >= top[k].contract_value
                           /\ top[j].contract_value = top[k].contract_value
                                 => top[j].id < top[k].id
            /\ \A i \in out : \A j \in 1..Len(top) :
                  /\ from[i].contract_value <= top[j].contract_value
                  /\ from[i].contract_value = top[j].contract_value
                        => top[j].id < from[i].id
            /\ contracts = ExampleStore => Field(top, "id") = <<1, 2, 3, 4, 5>>

\* C9: the store of the example, loaded
C9_Witness ==
    /\ loaded = "ok"
    /\ contracts = ExampleStore
    /\ Field(data.top5Contracts, "contract_value") = <<500, 500, 300, 100, 50>>
    /\ Field(data.top5Contracts, "id") = <<1, 2, 3, 4, 5>>

\* C10 as stated: every contract in top5Contracts overlaps the analysis
\* interval, and a contract that overlaps the interval is eligible though it
\* has ended: of a store of at most five contracts it is listed.
C10_Original ==
    loaded = "ok" =>
        /\ \A j \in 1..Len(data.top5Contracts) :
              ClosedRangesMeet(data.top5Contracts[j], LoadInterval)
        /\ Len(contracts) <= 5 =>
              \A i \in 1..Len(contracts) :
                 ClosedRangesMeet(contracts[i], LoadInterval) => InTop5(contracts[i])

\* C10 as amended: every contract in top5Contracts is one whose end_date is
\* absent or not yet past, and a contract that has ended is not listed, though
\* it overlaps the interval.
C10_TopFromActive ==
    loaded = "ok" =>
        /\ \A j \in 1..Len(data.top5Contracts) :
              \/ data.top5Contracts[j].end_date = NoDate
              \/ Midnight(data.top5Contracts[j].end_date) >= loadNow
        /\ \A i \in 1..Len(contracts) :
              (contracts[i].end_date # NoDate /\ Midnight(contracts[i].end_date) < loadNow)
                 => ~InTop5(contracts[i])

\* an ended contract of value 500 that overlaps the interval is left out of a
\* list that has room for it
C10_Witness ==
    /\ loaded = "ok"
    /\ Len(contracts) = 2
    /\ contracts[1].contract_value = 500
    /\ contracts[1].end_date = MkDate(2024, 11, 5)
    /\ ClosedRangesMeet(contracts[1], LoadInterval)
    /\ Field(data.top5Contracts, "id") = <<2>>

----------------------------------------------------------------------------
(* Claims about the trend and the aggregates *)

\* the labels of the calendar months first..last, in order
MonthLabels(first, last) == [j \in 1..(last - first + 1) |-> Label(first + j - 1)]

\* C11 as stated: the trend has one bucket for each calendar month from the
\* month of interval.start through the month of interval.end, in order, labels
\* and data being as many.
C11_Original ==
    loaded = "ok" =>
        /\ data.spendTrend.labels =
              MonthLabels(MonthIndex(DateOf(LoadInterval.start)),
                          MonthIndex(DateOf(LoadInterval.end)))
        /\ Len(data.spendTrend.data) = Len(data.spendTrend.labels)

\* C11 as amended: the trend has exactly twelve buckets, one for each calendar
\* month from eleven months before the month of the clock through the month of
\* the clock, in order; labels and data are both twelve long, and a store
\* that allocates nothing leaves every bucket at 0.
C11_TwelveBuckets ==
    loaded = "ok" =>
        LET last == MonthIndex(DateOf(loadNow))
        IN  /\ data.spendTrend.labels = MonthLabels(last - 11, last)
            /\ Len(data.spendTrend.data) = 12
            /\ (\A i \in 1..Len(contracts) : contracts[i].contract_value = 0)
                  => \A j \in 1..12 : data.spendTrend.data[j] = 0

\* C11: a load in March 2025 gives the buckets Apr 24 .. Mar 25, and the month
\* the interval starts in, March 2024, has none
C11_Witness ==
    /\ loaded = "ok"
    /\ MonthIndex(DateOf(LoadInterval.start)) = MonthIndex(MkDate(2024, 3, 1))
    /\ data.spendTrend.labels[1] = <<"Apr", 24>>
    /\ data.spendTrend.labels[12] = <<"Mar", 25>>
    /\ Len(data.spendTrend.labels) = 12

\* the bucket of the trend that stands for the calendar month mi, or 0
BucketOf(mi) == mi - (MonthIndex(DateOf(loadNow)) - 12)

MonthlyTwin(c) ==
    [c EXCEPT !.payment_terms = "monthly", !.contract_value = c.contract_value \div 12]

MonthOfBucket(j) == MonthIndex(DateOf(loadNow)) - 12 + j

\* C13 as stated, for a contract whose dates are in order: every bucket of
\* the trend gets the monthly contract_value if its month lies between
\* max(start month, interval start month) and min(effective end month,
\* interval end month), both included, and nothing otherwise.
C13_Original ==
    (loaded = "ok" /\ Len(contracts) = 1) =>
        LET c  == contracts[1]
            lo == Max(MonthIndex(c.start_date), MonthIndex(DateOf(LoadInterval.start)))
            hi == Min(MonthIndex(EffectiveEnd(c)), MonthIndex(DateOf(LoadInterval.end)))
        IN  (/\ c.payment_terms = "monthly"
             /\ c.contract_value > 0
             /\ c.start_date # NoDate
             /\ c.start_date <= EffectiveEnd(c))
               => \A j \in 1..Len(data.spendTrend.data) :
                     data.spendTrend.data[j] =
                        IF lo <= MonthOfBucket(j) /\ MonthOfBucket(j) <= hi
                        THEN c.contract_value ELSE 0

\* the spend allocated to the contracts of the store whose key (vendor name,
\* or type name) is name
AllocatedTo(name, dim) ==
    SumSeq([i \in 1..Len(contracts) |->
               IF (IF dim = "vendor" THEN VendorKey(contracts[i]) ELSE TypeKey(contracts[i])) = name
               THEN Max(0, Spend(contracts[i], LoadInterval)) ELSE 0])

\* every entry is positive and is the sum of the positive spends of its key;
\* no key stands twice; a key has an entry only if some contract of that key
\* is allocated something
PositiveOnly(entries, dim) ==
    /\ \A j \in 1..Len(entries) :
          /\ entries[j].total > 0
          /\ entries[j].total = AllocatedTo(entries[j].name, dim)
    /\ \A j, k \in 1..Len(entries) : entries[j].name = entries[k].name => j = k
    /\ \A i \in 1..Len(contracts) :
          LET key == IF dim = "vendor" THEN VendorKey(contracts[i]) ELSE TypeKey(contracts[i])
          IN  Spend(contracts[i], LoadInterval) > 0
                 => \E j \in 1..Len(entries) : entries[j].name = key

\* C14: every entry of spendByVendor and of spendByType has a total above 0;
\* a contract that is allocated nothing (no value, no overlap, one_time outside
\* the interval) makes no entry and changes no total: every total is the sum
\* of the positive spends of its key.
C14_PositiveOnly ==
    loaded = "ok" =>
        /\ PositiveOnly(data.spendByVendor, "vendor")
        /\ PositiveOnly(data.spendByType, "type")

\* C14: Acme has a contract that is allocated 1560 and one that is allocated
\* nothing, and a vendor whose only contract is allocated nothing has no entry
C14_Witness ==
    /\ loaded = "ok"
    /\ Len(contracts) = 3
    /\ Spend(contracts[1], LoadInterval) = 1560
    /\ contracts[2].vendor_name = "Acme" /\ contracts[2].contract_value > 0
    /\ Spend(contracts[2], LoadInterval) = 0
    /\ contracts[3].vendor_name = "Globex"
    /\ Spend(contracts[3], LoadInterval) = 0
    /\ data.spendByVendor = <<[name |-> "Acme", total |-> 1560]>>

\* the place in the store of the first contract of the key name that is
\* allocated something
FirstSeen(name, dim) ==
    LET at == {i \in 1..Len(contracts) :
                 /\ (IF dim = "vendor" THEN VendorKey(contracts[i])
                      ELSE TypeKey(contracts[i])) = name
                 /\ Spend(contracts[i], LoadInterval) > 0}
    IN  IF at = {} THEN 0 ELSE CHOOSE i \in at : \A k \in at : i <= k

\* by total, largest first, equal totals in the order their keys were first met
SortedByTotal(entries, dim) ==
    \A j, k \in 1..Len(entries) :
        j < k => /\ entries[j].total >= entries[k].total
                 /\ entries[j].total = entries[k].total
                       => FirstSeen(entries[j].name, dim) < FirstSeen(entries[k].name, dim)

\* in the order the keys were first met
InFirstSeenOrder(entries, dim) ==
    \A j, k \in 1..Len(entries) :
        j < k => FirstSeen(entries[j].name, dim) < FirstSeen(entries[k].name, dim)

\* C15 as stated: spendByVendor and spendByType are both sorted by total,
\* largest first, entries of equal total in the order their keys were first
\* met in the collection.
C15_Original ==
    loaded = "ok" =>
        /\ SortedByTotal(data.spendByVendor, "vendor")
        /\ SortedByTotal(data.spendByType, "type")

\* C15 as amended: spendByVendor is sorted by total, largest first, entries of
\* equal total in the order their vendors were first met; spendByType is not
\* sorted: its entries stand in the order in which their types were first
\* allocated spend.
C15_VendorSortedTypeAsMet ==
    loaded = "ok" =>
        /\ SortedByTotal(data.spendByVendor, "vendor")
        /\ InFirstSeenOrder(data.spendByType, "type")

\* C15: the larger vendor total has been moved to the front, the larger type
\* total stands last
C15_Witness ==
    /\ loaded = "ok"
    /\ Len(data.spendByVendor) = 2
    /\ data.spendByVendor[1].total > data.spendByVendor[2].total
    /\ FirstSeen(data.spendByVendor[1].name, "vendor")
          > FirstSeen(data.spendByVendor[2].name, "vendor")
    /\ Len(data.spendByType) = 2
    /\ data.spendByType[1].total < data.spendByType[2].total

----------------------------------------------------------------------------
(* Claims about the store and the dashboard *)

\* C17 as stated: after any sequence of create and edit operations every
\* stored contract that has both dates has start_date <= end_date.
C17_Original ==
    \A i \in 1..Len(contracts) :
        (contracts[i].start_date # NoDate /\ contracts[i].end_date # NoDate)
           => contracts[i].start_date <= contracts[i].end_date

ByEndDate(rows) ==
    \A j, k \in 1..Len(rows) :
        j < k => \/ rows[k].end_date = NoDate
                 \/ (rows[j].end_date # NoDate /\ rows[j].end_date <= rows[k].end_date)

\* C19 as stated, for contracts that have both dates: while no column header
\* has been clicked, the table shows the contracts sorted by end date, soonest
\* first, as they were fetched.
C19_Original ==
    (/\ dashboard # NoData
     /\ ~dashboard.clicked
     /\ \A i \in 1..Len(contracts) :
           contracts[i].start_date # NoDate /\ contracts[i].end_date # NoDate) =>
        /\ ByEndDate(sortedContracts)
        /\ sortedContracts = dashboard.contracts

----------------------------------------------------------------------------
(* Claims about the shapes, the forms and the components *)

\* the fields the analysis page reads from the result
PageReads ==
    {"monthlyRecurringCost", "totalAnnualizedSpend", "oneTimeContractsValueYTD",
     "spendByVendor", "spendByType", "spendTrend", "top5Contracts"}

\* C21 as stated: the object returned when the fetch fails has exactly the
\* fields of the object returned on success, so every field the page reads is
\* in it.
C21_Original ==
    loaded = "error" =>
        /\ DOMAIN data = DOMAIN LoadResult(contracts, loadNow)
        /\ PageReads \subseteq DOMAIN data

\* a request the claims call invalid: a blank name, a missing start date,
\* 'specific' without an end date, or an end date before the start date
ClaimInvalid(f) ==
    \/ f.contract_name = ""
    \/ f.start_date = NoDate
    \/ (f.endDateType = "specific" /\ f.end_date = NoDate)
    \/ (f.end_date # NoDate /\ f.end_date < f.start_date)

\* C22: a create request with a blank name, a missing start date, 'specific'
\* without an end date, or an end date before the start date is answered 400,
\* and the step that answers it uploads no file and inserts no row.
C22_RejectionTouchesNothing ==
    [][(response' # NoData /\ response'.action = "create" /\ ClaimInvalid(response'.form))
          => (response'.status = 400 /\ files' = files /\ contracts' = contracts)]_vars

\* C22: a request with a file attached and an end date before its start date
\* was rejected; the store holds a contract, the bucket holds nothing
C22_Witness ==
    /\ response # NoData
    /\ response.action = "create"
    /\ response.status = 400
    /\ response.form.contract_file
    /\ response.form.contract_name # ""
    /\ response.form.start_date # NoDate
    /\ response.form.end_date # NoDate
    /\ response.form.end_date < response.form.start_date
    /\ Len(contracts) = 1
    /\ files = {}

\* the rows of the table whose value in the sorted column is null
NullRows == {i \in 1..Len(sortedContracts) :
                getSortableValue(sortedContracts[i], dashboard.sortColumn).null}

\* C23: whatever column the table is sorted by and in whichever direction,
\* every row whose sort value is null comes after every row whose sort value
\* is not null.
C23_NullsLast ==
    dashboard # NoData =>
        \A i \in NullRows : \A j \in (1..Len(sortedContracts)) \ NullRows : j < i

\* C23: a table sorted descending by start date after a click, in which the
\* contract without a start date, which was fetched first, is shown last
C23_Witness ==
    /\ dashboard # NoData
    /\ dashboard.clicked
    /\ dashboard.sortColumn = "start_date"
    /\ dashboard.sortDirection = "desc"
    /\ Len(sortedContracts) = 3
    /\ dashboard.contracts[1].start_date = NoDate
    /\ NullRows = {3}

\* C25: the sorting state always names a column; a click on the column the
\* table is sorted by keeps the column and flips the direction between 'asc'
\* and 'desc' (so that two such clicks restore it); a click on another column
\* sorts by that column, ascending.  Before any click the state is
\* (start_date, desc).
C25_SortHeader ==
    [][(dashboard' # NoData) =>
          /\ dashboard'.sortColumn \in SortableColumns
          /\ dashboard'.sortDirection \in {"asc", "desc"}
          /\ ~dashboard'.clicked =>
                (dashboard'.sortColumn = "start_date" /\ dashboard'.sortDirection = "desc")
          /\ (dashboard # NoData /\ dashboard'.clicked /\ dashboard' # dashboard) =>
                IF dashboard'.sortColumn = dashboard.sortColumn
                THEN dashboard'.sortDirection # dashboard.sortDirection
                ELSE dashboard'.sortDirection = "asc"]_vars

\* C25: the table is sorted by start date, descending, again, after clicks
C25_Witness ==
    /\ dashboard # NoData
    /\ dashboard.clicked
    /\ dashboard.sortColumn = "start_date"
    /\ dashboard.sortDirection = "desc"
    /\ Len(dashboard.contracts) = 2

\* C24: a Chart component has at most one live Chart.js instance at any
\* time; an instance is created only when the one before it has been
\* destroyed; and once the component is unmounted none is left.
C24_ChartLifecycle ==
    [][/\ Cardinality(chart'.instances) <= 1
       /\ chart'.made > chart.made => chart.instances = {}
       /\ ~chart'.mounted => chart'.instances = {}]_vars

\* C24: the component shows its third instance, a line chart of the trend,
\* after its props were changed or it was mounted again
C24_Witness ==
    /\ chart.mounted
    /\ ~chart.scheduled
    /\ chart.made = 3
    /\ chart.instances = {[id |-> 3, props |-> [type |-> "line", data |-> "spendTrend"]]}

\* C26 as stated: the row a successful create request inserts has an end
\* date only when the request's end-date type is 'specific' and a renewal type
\* only when it is not; no row has both, and every row has exactly one of
\* them.
C26_Original ==
    [][(/\ response' # NoData
        /\ response'.action = "create"
        /\ response'.status = 303
        /\ Len(contracts') = Len(contracts) + 1) =>
          LET c == contracts'[Len(contracts')]
              f == response'.form
          IN  /\ c.end_date # NoDate => f.endDateType = "specific"
              /\ c.renewal_type # "" => f.endDateType # "specific"
              /\ ~(c.end_date # NoDate /\ c.renewal_type # "")
              /\ (c.end_date # NoDate \/ c.renewal_type # "")]_vars

\* the files of the bucket that no stored contract points to
Orphans(cs, fs) == {p \in fs : \A i \in 1..Len(cs) : cs[i].file_path # p}

\* C30 as stated: a create request that is answered with a failure leaves the
\* contracts table and the bucket as they were, and the bucket never holds a
\* file that no contract points to.
C30_Original ==
    [][/\ (/\ response' # NoData
            /\ response'.action = "create"
            /\ response'.status \in {400, 500}) =>
              (contracts' = contracts /\ files' = files)
       /\ Orphans(contracts', files') = {}]_vars

\* a contract whose end date has passed when the dashboard is computed
ClaimExpired(c) == c.end_date # NoDate /\ Midnight(c.end_date) < dashboard.at

\* a contract whose end date is at most the notice period away
ClaimInNotice(c) ==
    /\ c.end_date # NoDate
    /\ DayNumber(c.end_date) - DayNumber(DateOf(dashboard.at)) <= DefaultNoticeDays

\* C27 as stated: on the dashboard every contract that has a renewal type
\* and is neither expired nor within its notice period has the status
\* 'Auto-Renew', a renewing contract without an end date included.
C27_Original ==
    dashboard # NoData =>
        \A i \in 1..Len(dashboard.contracts) :
            LET c == dashboard.contracts[i]
            IN  (c.renewal_type # "" /\ ~ClaimExpired(c) /\ ~ClaimInNotice(c))
                   => contractsWithStatus[i] = "Auto-Renew"

\* the spends above 0 that the contracts of the store are allocated, summed
PositiveSpend ==
    SumSeq([i \in 1..Len(contracts) |-> Max(0, Spend(contracts[i], LoadInterval))])

\* C28: the totals of spendByVendor and the totals of spendByType add up to
\* the same amount, the sum of the spends above 0 that the contracts are
\* allocated in the interval.
C28_TotalsAgree ==
    loaded = "ok" =>
        /\ Totals(data.spendByVendor) = Totals(data.spendByType)
        /\ Totals(data.spendByVendor) = PositiveSpend

\* C28: two vendors share one type, and a third contract of a negative value
\* is allocated nothing
C28_Witness ==
    /\ loaded = "ok"
    /\ Len(contracts) = 3
    /\ Len(data.spendByVendor) = 2
    /\ Len(data.spendByType) = 1
    /\ \E i \in 1..3 : Spend(contracts[i], LoadInterval) < 0
    /\ PositiveSpend > 0

\* a contract that has started by the start of the interval and has not ended
\* by its end
ActiveThroughout(c) ==
    /\ c.start_date # NoDate
    /\ Midnight(c.start_date) <= LoadInterval.start
    /\ (c.end_date = NoDate \/ Midnight(c.end_date) >= LoadInterval.end)

\* C29 as stated: for a monthly contract with a value above 0 that is active
\* throughout the interval, the amounts in the trend buckets add up to the
\* spend it is allocated in spendByVendor.
C29_Original ==
    (/\ loaded = "ok"
     /\ Len(contracts) = 1
     /\ contracts[1].payment_terms = "monthly"
     /\ contracts[1].contract_value > 0
     /\ ActiveThroughout(contracts[1])) =>
        SumSeq(data.spendTrend.data) = Totals(data.spendByVendor)

====
